---- MODULE Spec2Model ----
(***************************************************************************)
(* healthcare_pipeline.py: a linear batch script over one pandas table.    *)
(*   1) LOAD      df = pd.read_csv(data/patients.csv)                      *)
(*   2) CLEANING  type coercion, text normalisation, drop_duplicates,      *)
(*                fillna, derived columns, to_csv                          *)
(*   3) METRICS   kpi, counts, admissions by month, average billing        *)
(*   4) VISUALS   save_line / save_bar / save_pie, one PNG per chart       *)
(*                                                                         *)
(* Representation.                                                         *)
(*   text      a sequence of one-character strings                         *)
(*   cell      NA (NaN / NaT / None), Str(text), Num(n), Date(y, m, d)     *)
(*   number    fixed point: Num(n) stands for n / Scale, FracDigits        *)
(*             decimals.  Loaded amounts carry at most two decimals, so    *)
(*             the midpoint of any two of them is exact.                   *)
(*   row       a function from the column names present to cells           *)
(*   df        a function from index labels to rows; read_csv labels the   *)
(*             rows 1..n (pandas: 0..n-1) and drop_duplicates keeps the    *)
(*             labels of the rows it keeps.                                *)
(*                                                                         *)
(*   dtype     a numeric column is int64/int32 or float64; int_cols holds  *)
(*             the integer ones.  The dtype read_csv infers for Age at     *)
(*             line 17 is settled where the model parses the texts         *)
(*             (line 42), since to_numeric keeps an integer column.        *)
(*                                                                         *)
(* Two things the script does not decide are choices of the model:         *)
(*   pandas3   astype(str) turns a missing value into the text "nan"       *)
(*             before pandas 3.0 and keeps it missing from 3.0 on;         *)
(*   Render    a chart call may raise (matplotlib, the file system).       *)
(* The state starts after line 25 (column names stripped).  The contents   *)
(* of the metric tables other than admissions-by-month are not modelled,   *)
(* only that their files are written.                                      *)
(***************************************************************************)
EXTENDS Integers, Sequences, FiniteSets, TLC

\* ------------------------------------------------------------- bounds
\* Rows of a loaded table, per family of inputs (see Init).
MaxRowsBilling == 4
MaxRowsText == 2
MaxRowsDate == 3
MaxRowsAge == 1
\* Columns an input table may lack.
MaxMissing == 1
\* Runs of the script: the second one loads the first one's cleaned CSV.
MaxRuns == 2

\* -------------------------------------------------------------- cells
\* Decimals a number keeps (fixed point).
FracDigits == 3

NA == [k |-> "na"]
Str(s) == [k |-> "str", s |-> s]
Num(n) == [k |-> "num", n |-> n]
Date(y, m, d) == [k |-> "date", y |-> y, m |-> m, d |-> d]

isna(c) == c.k = "na"

\* --------------------------------------------------------------- text
Digits == <<"0", "1", "2", "3", "4", "5", "6", "7", "8", "9">>
Lowers == <<"a", "b", "c", "d", "e", "f", "g", "h", "i", "j", "k", "l", "m",
            "n", "o", "p", "q", "r", "s", "t", "u", "v", "w", "x", "y", "z">>
Uppers == <<"A", "B", "C", "D", "E", "F", "G", "H", "I", "J", "K", "L", "M",
            "N", "O", "P", "Q", "R", "S", "T", "U", "V", "W", "X", "Y", "Z">>

Range(f) == {f[i] : i \in DOMAIN f}
IndexOf(c, seq) == CHOOSE i \in 1..Len(seq) : seq[i] = c

IsDigit(c) == c \in Range(Digits)
IsLower(c) == c \in Range(Lowers)
IsUpper(c) == c \in Range(Uppers)
IsCased(c) == IsLower(c) \/ IsUpper(c)
DigitVal(c) == IndexOf(c, Digits) - 1
DigitChar(n) == Digits[n + 1]
ToUpper(c) == IF IsLower(c) THEN Uppers[IndexOf(c, Lowers)] ELSE c
ToLower(c) == IF IsUpper(c) THEN Lowers[IndexOf(c, Uppers)] ELSE c

Front(s) == SubSeq(s, 1, Len(s) - 1)
Last(s) == s[Len(s)]

\* str.strip(): whitespace off both ends.
RECURSIVE lstrip(_)
lstrip(s) == IF s # <<>> /\ Head(s) = " " THEN lstrip(Tail(s)) ELSE s
RECURSIVE rstrip(_)
rstrip(s) == IF s # <<>> /\ Last(s) = " " THEN rstrip(Front(s)) ELSE s
strip(s) == rstrip(lstrip(s))

\* str.title(): a cased character is upper-cased when the character before
\* it is not cased, and lower-cased otherwise.
title(s) ==
    [i \in 1..Len(s) |->
        IF ~IsCased(s[i]) THEN s[i]
        ELSE IF i = 1 \/ ~IsCased(s[i - 1]) THEN ToUpper(s[i])
        ELSE ToLower(s[i])]

RECURSIVE DigitsToNat(_)
DigitsToNat(ds) ==
    IF ds = <<>> THEN 0 ELSE DigitsToNat(Front(ds)) * 10 + DigitVal(Last(ds))

RECURSIVE NatToDigits(_)
NatToDigits(n) ==
    IF n < 10 THEN <<DigitChar(n)>>
    ELSE NatToDigits(n \div 10) \o <<DigitChar(n % 10)>>

RECURSIVE Pow10(_)
Pow10(e) == IF e = 0 THEN 1 ELSE 10 * Pow10(e - 1)

AllDigits(s) == \A i \in 1..Len(s) : IsDigit(s[i])

\* Zero-padded decimal of width w.
RECURSIVE Pad(_, _)
Pad(ds, w) == IF Len(ds) >= w THEN ds ELSE Pad(<<"0">> \o ds, w)

Scale == Pow10(FracDigits)

\* -------------------------------------------------------- conversions
\* Series.astype(str) of one cell.  A missing value becomes the text "nan"
\* under pandas before 3.0 (object dtype) and stays missing from 3.0 on
\* (str dtype); keepsNA says which pandas runs the script.
astype_str(c, keepsNA) ==
    IF isna(c) THEN (IF keepsNA THEN NA ELSE Str(<<"n", "a", "n">>)) ELSE c

\* .str.replace(r"[^0-9.\-]", "", regex=True) of one cell.
str_replace(c) ==
    IF isna(c) THEN NA
    ELSE Str(SelectSeq(c.s, LAMBDA ch : IsDigit(ch) \/ ch \in {".", "-"}))

\* The decimal grammar pd.to_numeric accepts over the model's alphabet:
\* [sign] digits [. digits] | [sign] . digits, blanks around it ignored.
\* Decimals beyond FracDigits are cut.
ParseDecimal(text) ==
    LET s == strip(text)
        neg == s # <<>> /\ Head(s) = "-"
        u == IF s # <<>> /\ Head(s) \in {"-", "+"} THEN Tail(s) ELSE s
        dots == {i \in 1..Len(u) : u[i] = "."}
        p == IF dots = {} THEN Len(u) + 1 ELSE CHOOSE i \in dots : TRUE
        ip == SubSeq(u, 1, p - 1)
        fp == SubSeq(u, p + 1, Len(u))
        fcut == SubSeq(fp, 1, IF Len(fp) < FracDigits THEN Len(fp) ELSE FracDigits)
        ok == /\ Cardinality(dots) <= 1
              /\ AllDigits(ip) /\ AllDigits(fp)
              /\ Len(ip) + Len(fp) > 0
        mag == DigitsToNat(ip) * Scale
               + DigitsToNat(fcut) * Pow10(FracDigits - Len(fcut))
    IN IF ok THEN Num(IF neg THEN 0 - mag ELSE mag) ELSE NA

\* An integer literal: [sign] digits.  A column whose every field is one
\* parses to int64; a decimal point or a missing value makes it float64.
IsInteger(text) ==
    LET s == strip(text)
        u == IF s # <<>> /\ Head(s) \in {"-", "+"} THEN Tail(s) ELSE s
    IN u # <<>> /\ AllDigits(u)

\* The dtype pd.to_numeric(..., errors="coerce") gives a column of texts
\* is an integer one.
to_numeric_is_int(series) ==
    \A i \in DOMAIN series : series[i].k = "str" /\ IsInteger(series[i].s)

\* pd.to_numeric(..., errors="coerce") of one cell.
to_numeric(c) ==
    CASE c.k = "num" -> c
      [] c.k = "str" -> ParseDecimal(c.s)
      [] OTHER -> NA

IsLeap(y) == (y % 4 = 0 /\ y % 100 # 0) \/ y % 400 = 0
DaysInMonth(y, m) ==
    IF m = 2 THEN (IF IsLeap(y) THEN 29 ELSE 28)
    ELSE IF m \in {4, 6, 9, 11} THEN 30 ELSE 31

\* pd.to_datetime(..., errors="coerce") of one cell, for ISO texts
\* YYYY-MM-DD; any other text of the model's inputs is no date (NaT).
to_datetime(c) ==
    CASE c.k = "date" -> c
      [] c.k = "str" ->
           LET s == c.s
               shaped == /\ Len(s) = 10 /\ s[5] = "-" /\ s[8] = "-"
                         /\ \A i \in {1, 2, 3, 4, 6, 7, 9, 10} : IsDigit(s[i])
               y == DigitsToNat(SubSeq(s, 1, 4))
               m == DigitsToNat(SubSeq(s, 6, 7))
               d == DigitsToNat(SubSeq(s, 9, 10))
           IN IF shaped /\ m \in 1..12 /\ d \in 1..DaysInMonth(y, m)
              THEN Date(y, m, d) ELSE NA
      [] OTHER -> NA

\* .dt.year
dt_year(c) == IF c.k = "date" THEN Num(c.y * Scale) ELSE NA

\* .dt.to_period("M").astype(str): "YYYY-MM"; a missing period prints as
\* "NaT" before pandas 3.0 and stays missing from 3.0 on.
dt_to_period_M_str(c, keepsNA) ==
    IF c.k = "date"
    THEN Str(Pad(NatToDigits(c.y), 4) \o <<"-">> \o Pad(NatToDigits(c.m), 2))
    ELSE IF keepsNA THEN NA ELSE Str(<<"N", "a", "T">>)

MonthAbbr ==
    << <<"J", "a", "n">>, <<"F", "e", "b">>, <<"M", "a", "r">>,
       <<"A", "p", "r">>, <<"M", "a", "y">>, <<"J", "u", "n">>,
       <<"J", "u", "l">>, <<"A", "u", "g">>, <<"S", "e", "p">>,
       <<"O", "c", "t">>, <<"N", "o", "v">>, <<"D", "e", "c">> >>

\* .dt.strftime("%b")
dt_strftime_b(c) == IF c.k = "date" THEN Str(MonthAbbr[c.m]) ELSE NA

\* ------------------------------------------------------------ columns
\* The columns the script names (lines 28-64) and the ones it derives.
Columns ==
    {"Date of Admission", "Billing Amount", "Age", "Gender", "Name",
     "Blood Type", "Medical Condition", "Doctor", "Hospital",
     "Insurance Provider"}
\* for col in ["Name", "Blood Type", ...] (line 50)
TextCols ==
    {"Name", "Blood Type", "Medical Condition", "Doctor", "Hospital",
     "Insurance Provider"}
DerivedDateCols == {"Admission Year", "Admission Month", "Month Name"}

\* Literals of the script.
Unknown == <<"U", "n", "k", "n", "o", "w", "n">>
Male == <<"M", "a", "l", "e">>
Female == <<"F", "e", "m", "a", "l", "e">>
\* bins = [0, 18, 40, 60, 200], labels = [...] (lines 68-69)
bins == <<0, 18, 40, 60, 200>>
labels ==
    << <<"C", "h", "i", "l", "d", " ", "(", "0", "-", "1", "8", ")">>,
       <<"A", "d", "u", "l", "t", " ", "(", "1", "9", "-", "4", "0", ")">>,
       <<"M", "i", "d", "d", "l", "e", " ", "(", "4", "1", "-", "6", "0", ")">>,
       <<"S", "e", "n", "i", "o", "r", " ", "(", "6", "1", "+", ")">> >>

\* Output files (lines 77-126 and 161-219).
CleanFile == "patients_clean.csv"
MetricFiles ==
    {"kpis.csv", "medical_condition_counts.csv", "admissions_by_month.csv",
     "avg_billing_by_condition.csv", "blood_type_counts.csv",
     "avg_billing_by_bloodtype.csv"}
ChartFiles ==
    {"admissions_over_time.png", "top10_medical_conditions.png",
     "gender_distribution.png", "age_group_distribution.png",
     "avg_billing_by_condition.png", "insurance_provider_share.png",
     "blood_type_distribution.png", "avg_billing_by_bloodtype.png"}
BloodFiles ==
    {"blood_type_counts.csv", "avg_billing_by_bloodtype.csv",
     "blood_type_distribution.png", "avg_billing_by_bloodtype.png"}

\* Character order (ASCII) of the characters texts are made of.
AsciiOrder ==
    <<" ", "$", "'", "(", ")", "+", ",", "-", ".", "/">> \o Digits
    \o <<"<", ">">> \o Uppers \o Lowers
Ord(c) == IndexOf(c, AsciiOrder)

\* Python's str < str: the first differing character decides, a proper
\* prefix is smaller.
RECURSIVE StrLess(_, _)
StrLess(a, b) ==
    IF b = <<>> THEN FALSE
    ELSE IF a = <<>> THEN TRUE
    ELSE IF Head(a) # Head(b) THEN Ord(Head(a)) < Ord(Head(b))
    ELSE StrLess(Tail(a), Tail(b))

\* ------------------------------------------------------------- inputs
\* read_csv's default na_values: a field with one of these texts loads as
\* a missing value.
NaValues ==
    { <<>>,
      <<"#", "N", "/", "A">>,
      <<"#", "N", "/", "A", " ", "N", "/", "A">>,
      <<"#", "N", "A">>,
      <<"-", "1", ".", "#", "I", "N", "D">>,
      <<"-", "1", ".", "#", "Q", "N", "A", "N">>,
      <<"-", "N", "a", "N">>,
      <<"-", "n", "a", "n">>,
      <<"1", ".", "#", "I", "N", "D">>,
      <<"1", ".", "#", "Q", "N", "A", "N">>,
      <<"<", "N", "A", ">">>,
      <<"N", "/", "A">>,
      <<"N", "A">>,
      <<"N", "U", "L", "L">>,
      <<"N", "a", "N">>,
      <<"N", "o", "n", "e">>,
      <<"n", "/", "a">>,
      <<"n", "a", "n">>,
      <<"n", "u", "l", "l">> }

\* A loaded record with every column (the values not under study).
BaseRow ==
    [c \in Columns |->
        CASE c = "Date of Admission" -> Str(<<"2", "0", "2", "3", "-", "0", "1", "-", "1", "5">>)
          [] c = "Billing Amount" -> Str(<<"2", "5", "0", ".", "5">>)
          [] c = "Age" -> Str(<<"3", "5">>)
          [] c = "Gender" -> Str(<<"F", "e", "m", "a", "l", "e">>)
          [] c = "Name" -> Str(<<"A", "n", "n", " ", "L", "e", "e">>)
          [] c = "Blood Type" -> Str(<<"O", "-">>)
          [] c = "Medical Condition" -> Str(<<"F", "l", "u">>)
          [] c = "Doctor" -> Str(<<"D", "r", " ", "R", "o", "y">>)
          [] c = "Hospital" -> Str(<<"C", "i", "t", "y">>)
          [] c = "Insurance Provider" -> Str(<<"C", "i", "g", "n", "a">>)]

\* Loaded Billing Amount fields: missing, unparseable, plain, currency.
BillingCells ==
    { NA,
      Str(<<"a", "b", "c">>),
      Str(<<"1", "0", "0">>),
      Str(<<"$", "1", ",", "2", "3", "4", ".", "5", "6">>) }
\* Loaded Gender fields.
GenderCells ==
    { NA,
      Str(<<"m">>),
      Str(<<" ", "F", " ">>),
      Str(<<"m", "a", "l", "e">>),
      Str(<<"O", "T", "H", "E", "R">>) }
\* Loaded Blood Type fields.
BloodCells ==
    { NA,
      Str(<<" ", "A", "+", " ">>) }
\* Loaded Insurance Provider fields.
InsuranceCells ==
    { NA,
      Str(<<"A", "e", "t", "n", "a">>) }
\* Loaded Date of Admission fields.
DateCells ==
    { NA,
      Str(<<"b", "a", "d">>),
      Str(<<"2", "0", "2", "2", "-", "1", "2", "-", "3", "1">>),
      Str(<<"2", "0", "2", "3", "-", "0", "1", "-", "1", "5">>),
      Str(<<"2", "0", "2", "3", "-", "0", "1", "-", "2", "0">>),
      Str(<<"2", "0", "2", "3", "-", "0", "2", "-", "0", "1">>) }
\* Loaded Age fields: every bucket edge and its neighbours.
AgeCells ==
    { NA,
      Str(<<"a", "b", "c">>),
      Str(<<"-", "1">>),
      Str(<<"0">>),
      Str(<<"1", "7">>),
      Str(<<"1", "8">>),
      Str(<<"1", "8", ".", "5">>),
      Str(<<"1", "9">>),
      Str(<<"4", "0">>),
      Str(<<"4", "1">>),
      Str(<<"6", "0">>),
      Str(<<"6", "1">>),
      Str(<<"2", "0", "0">>),
      Str(<<"2", "0", "1">>) }

\* Sequences over S of length at most n.
SeqsUpTo(S, n) == UNION {[1..k -> S] : k \in 0..n}

BillingRows == {[BaseRow EXCEPT !["Billing Amount"] = b] : b \in BillingCells}
TextRows ==
    {[BaseRow EXCEPT !["Gender"] = g] : g \in GenderCells}
    \cup {[BaseRow EXCEPT !["Blood Type"] = b] : b \in BloodCells}
    \cup {[BaseRow EXCEPT !["Insurance Provider"] = p] : p \in InsuranceCells}
DateRows == {[BaseRow EXCEPT !["Date of Admission"] = d] : d \in DateCells}
AgeRows == {[BaseRow EXCEPT !["Age"] = a] : a \in AgeCells}

\* Tables for the runs on an input that lacks columns.
SampleTables ==
    { <<BaseRow, [BaseRow EXCEPT !["Billing Amount"] = NA, !["Age"] = NA,
                                 !["Gender"] = NA, !["Blood Type"] = NA]>>,
      <<[BaseRow EXCEPT !["Date of Admission"] = NA]>> }

\* The table without the columns in gone.
Without(table, gone) ==
    [i \in DOMAIN table |-> [c \in DOMAIN table[i] \ gone |-> table[i][c]]]

FullTables ==
    SeqsUpTo(BillingRows, MaxRowsBilling) \cup SeqsUpTo(TextRows, MaxRowsText)
    \cup SeqsUpTo(DateRows, MaxRowsDate) \cup SeqsUpTo(AgeRows, MaxRowsAge)

LackingTables ==
    {Without(t, gone) :
        t \in SampleTables,
        gone \in {g \in SUBSET Columns : Cardinality(g) \in 1..MaxMissing}}

\* -------------------------------------------------------------- state
VARIABLES
    pc,            \* the statement the script is at
    run,           \* which run of the script this is
    pandas3,       \* whether astype(str) keeps missing values (pandas >= 3)
    patients_csv,  \* data/patients.csv as read_csv loaded it (line 17)
    cols,          \* df.columns, after line 25
    df,            \* the table
    int_cols,      \* the numeric columns of df with an integer dtype
    clean_csv,     \* outputs/clean/patients_clean.csv
    monthly,       \* the admissions-by-month table (line 96)
    files,         \* files written under outputs/
    open_figs,     \* figures pyplot holds open
    failure        \* the exception that ended the run, or "none"

vars ==
    <<pc, run, pandas3, patients_csv, cols, df, int_cols, clean_csv, monthly,
      files, open_figs, failure>>

\* ---------------------------------------------------- table operators
Has(c) == c \in cols

\* df[col] = series: the column is replaced, or added when it is new.
setitem(d, col, series) ==
    [i \in DOMAIN d |->
        IF col \in DOMAIN d[i] THEN [d[i] EXCEPT ![col] = series[i]]
        ELSE [c \in DOMAIN d[i] \cup {col} |->
                 IF c = col THEN series[i] ELSE d[i][c]]]

\* The elements of a set of index labels, ascending.
RECURSIVE Ascending(_)
Ascending(I) ==
    IF I = {} THEN <<>>
    ELSE LET i == CHOOSE i \in I : \A j \in I : i <= j
         IN <<i>> \o Ascending(I \ {i})

str_strip(c) == IF c.k = "str" THEN Str(strip(c.s)) ELSE c
str_title(c) == IF c.k = "str" THEN Str(title(c.s)) ELSE c

\* Series.replace({"M": "Male", "F": "Female"}): whole values.
replace_gender(c) ==
    IF c = Str(<<"M">>) THEN Str(Male)
    ELSE IF c = Str(<<"F">>) THEN Str(Female)
    ELSE c

\* Series.fillna(value) of one cell.
fillna(c, value) == IF isna(c) THEN value ELSE c

\* DataFrame.drop_duplicates(): of equal rows the first stays, under its
\* own index label; missing values compare equal.
drop_duplicates(d) ==
    LET keep == {i \in DOMAIN d : \A j \in DOMAIN d : j < i => d[j] # d[i]}
    IN [i \in keep |-> d[i]]

\* The numbers v[i], i in I, ascending (with repetitions).
RECURSIVE SortedValues(_, _)
SortedValues(v, I) ==
    IF I = {} THEN <<>>
    ELSE LET i == CHOOSE i \in I : \A j \in I : v[i] <= v[j]
         IN <<v[i]>> \o SortedValues(v, I \ {i})

\* (mutant of median: the lower middle value, no midpoint)
median_low(d, col) ==
    LET I == {i \in DOMAIN d : ~isna(d[i][col])}
        s == SortedValues([i \in I |-> d[i][col].n], I)
        n == Len(s)
    IN IF n = 0 THEN NA ELSE Num(s[(n + 1) \div 2])

\* Series.median(): missing values skipped; the middle value, or the
\* midpoint of the two middle values; NaN when nothing is left.
median(d, col) ==
    LET I == {i \in DOMAIN d : ~isna(d[i][col])}
        s == SortedValues([i \in I |-> d[i][col].n], I)
        n == Len(s)
    IN IF n = 0 THEN NA
       ELSE IF n % 2 = 1 THEN Num(s[(n + 1) \div 2])
       ELSE Num((s[n \div 2] + s[n \div 2 + 1]) \div 2)

\* (mutant of cut: right=False, buckets closed on the left)
cut_left_closed(c) ==
    IF c.k # "num" THEN NA
    ELSE LET ids == Cardinality({j \in 1..Len(bins) : bins[j] * Scale <= c.n})
         IN IF ids = 0 \/ ids = Len(bins) THEN NA ELSE Str(labels[ids])

\* pd.cut(x, bins, labels, right=True, include_lowest=True) of one cell:
\* ids = bins.searchsorted(x, side="left"); x == bins[0] goes to 1;
\* ids == 0 and ids == len(bins) are missing.
cut(c) ==
    IF c.k # "num" THEN NA
    ELSE LET left == Cardinality({j \in 1..Len(bins) : bins[j] * Scale < c.n})
             ids == IF c.n = bins[1] * Scale THEN 1 ELSE left
         IN IF ids = 0 \/ ids = Len(bins) THEN NA ELSE Str(labels[ids])

\* ---------------------------------------------------------------- CSV
\* repr of a float: the integer part, a point, the decimals without
\* trailing zeros (at least one).
RECURSIVE TrimZeros(_)
TrimZeros(ds) ==
    IF Len(ds) > 1 /\ Last(ds) = "0" THEN TrimZeros(Front(ds)) ELSE ds
FormatFloat(n) ==
    LET mag == IF n < 0 THEN 0 - n ELSE n
    IN (IF n < 0 THEN <<"-">> ELSE <<>>)
       \o NatToDigits(mag \div Scale) \o <<".">>
       \o TrimZeros(Pad(NatToDigits(mag % Scale), FracDigits))
\* str of an int: no point, no decimals.
FormatInt(n) ==
    LET mag == IF n < 0 THEN 0 - n ELSE n
    IN (IF n < 0 THEN <<"-">> ELSE <<>>) \o NatToDigits(mag \div Scale)
FormatDate(c) ==
    Pad(NatToDigits(c.y), 4) \o <<"-">> \o Pad(NatToDigits(c.m), 2)
    \o <<"-">> \o Pad(NatToDigits(c.d), 2)

\* to_csv of one cell: a missing value is the empty field; a number of
\* an integer column is written as an int, of a float column as a float.
WriteCell(c, is_int) ==
    CASE c.k = "na" -> <<>>
      [] c.k = "str" -> c.s
      [] c.k = "num" -> IF is_int THEN FormatInt(c.n) ELSE FormatFloat(c.n)
      [] c.k = "date" -> FormatDate(c)

\* df.to_csv(path, index=False): the rows in index order, labels dropped;
\* ints are the columns with an integer dtype.
to_csv(d, columns, ints) ==
    LET order == Ascending(DOMAIN d)
    IN [columns |-> columns,
        rows |-> [k \in 1..Len(order) |->
                     [c \in columns |-> WriteCell(d[order[k]][c], c \in ints)]]]

\* pd.read_csv of one field.
ReadCell(text) == IF text \in NaValues THEN NA ELSE Str(text)
read_csv(csv) ==
    [k \in 1..Len(csv.rows) |-> [c \in csv.columns |-> ReadCell(csv.rows[k][c])]]

NoFile == [columns |-> {}, rows |-> <<>>]

\* ------------------------------------------------------------ metrics
\* (mutant of dropna: no row is dropped)
dropna_none(d, col) == d

\* DataFrame.dropna(subset=[col])
dropna(d, col) == [i \in {j \in DOMAIN d : ~isna(d[j][col])} |-> d[i]]

\* The texts of a set, ascending.
RECURSIVE SortedTexts(_)
SortedTexts(S) ==
    IF S = {} THEN <<>>
    ELSE LET t == CHOOSE t \in S : \A u \in S \ {t} : StrLess(t, u)
         IN <<t>> \o SortedTexts(S \ {t})

\* .groupby(col).size().reset_index(name="Admissions").sort_values(col):
\* one row per key, keys ascending, missing keys left out.
groupby_size(d, col) ==
    LET keys == {d[i][col].s : i \in {j \in DOMAIN d : d[j][col].k = "str"}}
        order == SortedTexts(keys)
    IN [k \in 1..Len(order) |->
           [month |-> order[k],
            Admissions |-> Cardinality({i \in DOMAIN d : d[i][col] = Str(order[k])})]]

\* ------------------------------------------------------------ initial
Init ==
    /\ pc = "dates"
    /\ run = 1
    /\ pandas3 \in BOOLEAN
    /\ patients_csv \in FullTables \cup LackingTables
    /\ cols = IF patients_csv \in FullTables THEN Columns
              ELSE DOMAIN patients_csv[1]
    /\ df = patients_csv
    /\ int_cols = {}
    /\ clean_csv = NoFile
    /\ monthly = <<>>
    /\ files = {}
    /\ open_figs = 0
    /\ failure = "none"

\* --------------------------------------------- 2) cleaning & enrichment
CleanFrame ==
    UNCHANGED <<run, pandas3, patients_csv, cols, clean_csv, monthly, files,
                open_figs, failure>>
CleanStep(here, next, table) ==
    /\ pc = here
    /\ pc' = next
    /\ df' = table
    /\ UNCHANGED int_cols
    /\ CleanFrame

\* A column is parsed to numbers: the values and the dtype of the result.
NumericStep(here, next, col, texts) ==
    /\ pc = here
    /\ pc' = next
    /\ IF Has(col)
       THEN /\ df' = setitem(df, col, [i \in DOMAIN df |-> to_numeric(texts[i])])
            /\ int_cols' = IF to_numeric_is_int(texts) THEN int_cols \cup {col}
                           ELSE int_cols \ {col}
       ELSE UNCHANGED <<df, int_cols>>
    /\ CleanFrame

\* lines 28-29
ConvertDates ==
    CleanStep("dates", "billing",
        IF Has("Date of Admission")
        THEN setitem(df, "Date of Admission",
                     [i \in DOMAIN df |-> to_datetime(df[i]["Date of Admission"])])
        ELSE df)

\* lines 32-38
BillingText(c) == str_replace(astype_str(c, pandas3))
BillingOf(c) == to_numeric(BillingText(c))
ConvertBilling ==
    NumericStep("billing", "age", "Billing Amount",
        [i \in DOMAIN df |->
            IF Has("Billing Amount") THEN BillingText(df[i]["Billing Amount"])
            ELSE NA])

\* lines 41-42
ConvertAge ==
    NumericStep("age", "gender", "Age",
        [i \in DOMAIN df |-> IF Has("Age") THEN df[i]["Age"] ELSE NA])

\* lines 45-47
GenderOf(c) == replace_gender(str_title(str_strip(astype_str(c, pandas3))))
NormalizeGender ==
    CleanStep("gender", "text",
        IF Has("Gender")
        THEN setitem(df, "Gender", [i \in DOMAIN df |-> GenderOf(df[i]["Gender"])])
        ELSE df)

\* lines 50-52
TextOf(c) == str_strip(astype_str(c, pandas3))
CleanTextCols ==
    CleanStep("text", "dedup",
        [i \in DOMAIN df |->
            [c \in DOMAIN df[i] |->
                IF c \in TextCols THEN TextOf(df[i][c]) ELSE df[i][c]]])

\* line 54
DropDuplicates == CleanStep("dedup", "fill_billing", drop_duplicates(df))

\* lines 57-58
FillBillingTable(d) ==
    LET m == median(d, "Billing Amount")
    IN setitem(d, "Billing Amount",
               [i \in DOMAIN d |-> fillna(d[i]["Billing Amount"], m)])
FillBilling ==
    CleanStep("fill_billing", "fill_gender",
        IF Has("Billing Amount")
           /\ \E i \in DOMAIN df : isna(df[i]["Billing Amount"])
        THEN FillBillingTable(df) ELSE df)

\* lines 59-64
FillUnknown(here, next, col) ==
    CleanStep(here, next,
        IF Has(col)
        THEN setitem(df, col, [i \in DOMAIN df |-> fillna(df[i][col], Str(Unknown))])
        ELSE df)
FillGender == FillUnknown("fill_gender", "fill_insurance", "Gender")
FillInsurance == FillUnknown("fill_insurance", "fill_blood", "Insurance Provider")
FillBlood == FillUnknown("fill_blood", "age_group", "Blood Type")

\* lines 67-70
AgeGroup ==
    /\ pc = "age_group"
    /\ pc' = "derived"
    /\ df' = IF Has("Age")
             THEN setitem(df, "Age Group", [i \in DOMAIN df |-> cut(df[i]["Age"])])
             ELSE df
    /\ cols' = IF Has("Age") THEN cols \cup {"Age Group"} ELSE cols
    /\ UNCHANGED <<run, pandas3, patients_csv, int_cols, clean_csv, monthly,
                   files, open_figs, failure>>

\* The run ends with an uncaught exception.
Raise(kind) ==
    /\ pc' = "failed"
    /\ failure' = kind

\* lines 72-74: df["Date of Admission"] is read with no guard.  .dt.year
\* is an int32 column when no date is missing and a float64 one otherwise.
DerivedTable(d) ==
    LET date == [i \in DOMAIN d |-> d[i]["Date of Admission"]]
    IN setitem(setitem(setitem(d,
        "Admission Year", [i \in DOMAIN d |-> dt_year(date[i])]),
        "Admission Month",
            [i \in DOMAIN d |-> dt_to_period_M_str(date[i], pandas3)]),
        "Month Name", [i \in DOMAIN d |-> dt_strftime_b(date[i])])
DerivedCols ==
    /\ pc = "derived"
    /\ \/ /\ Has("Date of Admission")
          /\ df' = DerivedTable(df)
          /\ cols' = cols \cup DerivedDateCols
          /\ int_cols' =
                IF \A i \in DOMAIN df : df[i]["Date of Admission"].k = "date"
                THEN int_cols \cup {"Admission Year"}
                ELSE int_cols \ {"Admission Year"}
          /\ pc' = "save_clean"
          /\ UNCHANGED failure
       \/ /\ ~Has("Date of Admission")
          /\ Raise("KeyError")
          /\ UNCHANGED <<df, cols, int_cols>>
    /\ UNCHANGED <<run, pandas3, patients_csv, clean_csv, monthly, files,
                   open_figs>>

\* lines 77-78
SaveClean ==
    /\ pc = "save_clean"
    /\ pc' = "kpi"
    /\ clean_csv' = to_csv(df, cols, int_cols)
    /\ files' = files \cup {CleanFile}
    /\ UNCHANGED <<run, pandas3, patients_csv, cols, df, int_cols, monthly,
                   open_figs, failure>>

\* --------------------------------------------------------- 3) metrics
\* A metric table is written when its guard holds.
WriteIf(guard, written) ==
    files' = IF guard THEN files \cup written ELSE files

\* lines 84-89: df["Billing Amount"] is read with no guard.  Once this
\* step has passed, the column is there for lines 107, 121, 188 and 212.
Kpi ==
    /\ pc = "kpi"
    /\ \/ /\ Has("Billing Amount")
          /\ files' = files \cup {"kpis.csv"}
          /\ pc' = "cond_counts"
          /\ UNCHANGED failure
       \/ /\ ~Has("Billing Amount")
          /\ Raise("KeyError")
          /\ UNCHANGED files
    /\ UNCHANGED <<run, pandas3, patients_csv, cols, df, int_cols, clean_csv,
                   monthly, open_figs>>

MetricStep(here, next, guard, written) ==
    /\ pc = here
    /\ pc' = next
    /\ WriteIf(guard, written)
    /\ UNCHANGED <<run, pandas3, patients_csv, cols, df, int_cols, clean_csv,
                   monthly, open_figs, failure>>

\* lines 91-94
CondCounts ==
    MetricStep("cond_counts", "monthly", Has("Medical Condition"),
               {"medical_condition_counts.csv"})

\* lines 96-103; the column read at line 97 is there once line 72 passed.
Monthly ==
    /\ pc = "monthly"
    /\ pc' = "avg_bill_cond"
    /\ monthly' = groupby_size(dropna(df, "Date of Admission"), "Admission Month")
    /\ files' = files \cup {"admissions_by_month.csv"}
    /\ UNCHANGED <<run, pandas3, patients_csv, cols, df, int_cols, clean_csv,
                   open_figs, failure>>

\* lines 105-112
AvgBillCond ==
    MetricStep("avg_bill_cond", "blood_metrics", Has("Medical Condition"),
               {"avg_billing_by_condition.csv"})

\* (mutant of HasBloodType: the guard of lines 115 and 205 is gone)
BloodTypeUnguarded == TRUE

\* lines 115-126 and 205-219: if "Blood Type" in df.columns
HasBloodType == Has("Blood Type")
BloodMetrics ==
    MetricStep("blood_metrics", "chart_admissions", HasBloodType,
               {"blood_type_counts.csv", "avg_billing_by_bloodtype.csv"})

\* --------------------------------------------------------- 4) visuals
\* plt.figure(); draw; plt.savefig(path); plt.close().  plt.close() is the
\* last statement, outside any try/finally: when drawing or saving raises
\* (an unwritable path, a pie of all-zero sizes), the figure stays open.
Render(path, next) ==
    \/ /\ open_figs' = (open_figs + 1) - 1
       /\ files' = files \cup {path}
       /\ pc' = next
       /\ UNCHANGED failure
    \/ /\ open_figs' = open_figs + 1
       /\ Raise("RenderError")
       /\ UNCHANGED files

\* lines 131-142
save_bar(path, next) == Render(path, next)
\* lines 144-150
save_pie(path, next) == Render(path, next)
\* lines 152-159
save_line(path, next) == Render(path, next)

Skip(next) ==
    /\ pc' = next
    /\ UNCHANGED <<files, open_figs, failure>>

ChartFrame ==
    UNCHANGED <<run, pandas3, patients_csv, cols, df, int_cols, clean_csv,
                monthly>>

\* lines 162-165
ChartAdmissions ==
    /\ pc = "chart_admissions"
    /\ IF monthly # <<>>
       THEN save_line("admissions_over_time.png", "chart_conditions")
       ELSE Skip("chart_conditions")
    /\ ChartFrame

\* lines 167-172
ChartConditions ==
    /\ pc = "chart_conditions"
    /\ IF Has("Medical Condition")
       THEN save_bar("top10_medical_conditions.png", "chart_gender")
       ELSE Skip("chart_gender")
    /\ ChartFrame

\* lines 174-178
ChartGender ==
    /\ pc = "chart_gender"
    /\ IF Has("Gender")
       THEN save_pie("gender_distribution.png", "chart_age_group")
       ELSE Skip("chart_age_group")
    /\ ChartFrame

\* lines 180-184
ChartAgeGroup ==
    /\ pc = "chart_age_group"
    /\ IF Has("Age Group")
       THEN save_pie("age_group_distribution.png", "chart_avg_billing")
       ELSE Skip("chart_avg_billing")
    /\ ChartFrame

\* lines 186-196
ChartAvgBilling ==
    /\ pc = "chart_avg_billing"
    /\ IF Has("Medical Condition")
       THEN save_bar("avg_billing_by_condition.png", "chart_insurance")
       ELSE Skip("chart_insurance")
    /\ ChartFrame

\* lines 198-202
ChartInsurance ==
    /\ pc = "chart_insurance"
    /\ IF Has("Insurance Provider")
       THEN save_pie("insurance_provider_share.png", "chart_blood_pie")
       ELSE Skip("chart_blood_pie")
    /\ ChartFrame

\* lines 205-209
ChartBloodPie ==
    /\ pc = "chart_blood_pie"
    /\ IF HasBloodType
       THEN save_pie("blood_type_distribution.png", "chart_blood_bar")
       ELSE Skip("chart_blood_bar")
    /\ ChartFrame

\* lines 211-219, under the guard of line 205
ChartBloodBar ==
    /\ pc = "chart_blood_bar"
    /\ IF HasBloodType
       THEN save_bar("avg_billing_by_bloodtype.png", "done")
       ELSE Skip("done")
    /\ ChartFrame

\* The script is run again on the cleaned CSV it wrote: line 17 loads
\* outputs/clean/patients_clean.csv in the place of data/patients.csv.
Rerun ==
    /\ pc = "done"
    /\ run < MaxRuns
    /\ run' = run + 1
    /\ pc' = "dates"
    /\ patients_csv' = read_csv(clean_csv)
    /\ df' = read_csv(clean_csv)
    /\ cols' = clean_csv.columns
    /\ int_cols' = {}
    /\ monthly' = <<>>
    /\ UNCHANGED <<pandas3, clean_csv, files, open_figs, failure>>

Next ==
    \/ ConvertDates \/ ConvertBilling \/ ConvertAge \/ NormalizeGender
    \/ CleanTextCols \/ DropDuplicates
    \/ FillBilling \/ FillGender \/ FillInsurance \/ FillBlood
    \/ AgeGroup \/ DerivedCols \/ SaveClean
    \/ Kpi \/ CondCounts \/ Monthly \/ AvgBillCond \/ BloodMetrics
    \/ ChartAdmissions \/ ChartConditions \/ ChartGender \/ ChartAgeGroup
    \/ ChartAvgBilling \/ ChartInsurance \/ ChartBloodPie \/ ChartBloodBar
    \/ Rerun

Spec == Init /\ [][Next]_vars

\* ------------------------------------------------------------- phases
CleanPcs ==
    {"dates", "billing", "age", "gender", "text", "dedup", "fill_billing",
     "fill_gender", "fill_insurance", "fill_blood", "age_group", "derived",
     "save_clean"}
\* The clean/enrich step of the current run has finished (line 78 passed).
Cleaned == pc \notin CleanPcs /\ CleanFile \in files
\* Lines 57-58 of the current run have passed.
Filled ==
    pc \notin {"dates", "billing", "age", "gender", "text", "dedup",
               "fill_billing"}
\* Line 70 of the current run has passed.
AgeGrouped == Filled /\ pc \notin {"fill_gender", "fill_insurance",
                                   "fill_blood", "age_group"}
\* Lines 96-103 of the current run have passed.
MonthlyDone ==
    \/ pc \in {"avg_bill_cond", "blood_metrics", "chart_admissions",
               "chart_conditions", "chart_gender", "chart_age_group",
               "chart_avg_billing", "chart_insurance", "chart_blood_pie",
               "chart_blood_bar", "done"}
    \/ failure = "RenderError"

Rows == DOMAIN df
NullTexts == {<<"n", "a", "n">>, <<"N", "a", "n">>, <<"N", "a", "N">>,
              <<"N", "o", "n", "e">>}

\* ================================================================ C1
\* C1: after the clean/enrich step every row of the cleaned table has a
\* non-null numeric Billing Amount, whatever mix of parseable, unparseable
\* and missing billing fields was loaded.
C1_BillingNeverNull ==
    (Cleaned /\ Has("Billing Amount"))
        => \A i \in Rows : df[i]["Billing Amount"].k = "num"

\* ================================================================ C2
\* C2: after cleaning, a row loaded with a missing Gender, Insurance
\* Provider or Blood Type holds "Unknown" there, and no row holds a null
\* or a stringified null in these columns.
C2_MissingTextIsUnknown ==
    Cleaned =>
        \A col \in {"Gender", "Insurance Provider", "Blood Type"} \cap cols :
            \A i \in Rows :
                /\ df[i][col].k = "str"
                /\ df[i][col].s \notin NullTexts
                /\ isna(patients_csv[i][col]) => df[i][col] = Str(Unknown)

\* ================================================================ C3
\* C3: a run on a table that lacks an optional column never ends in a
\* missing-column error: every read of the column is behind a guard.
C3_AbsentColumnNeverFails ==
    (Columns \ cols # {}) => failure # "KeyError"

\* ================================================================ C4
\* C4: no two rows of the cleaned table are equal in every column.
C4_CleanedRowsUnique ==
    Cleaned => \A i, j \in Rows : i # j => df[i] # df[j]

\* ================================================================ C5
\* C5: cleaning the cleaned table again changes nothing: the second run's
\* cleaned table has the rows and the values of the table it loaded.
C5_CleaningIdempotent ==
    (run > 1 /\ Cleaned) => read_csv(clean_csv) = patients_csv

\* ================================================================ C6
\* The bucket the claim gives an age (a number in units of 1/Scale).
BucketOfAge(a) ==
    IF a.k # "num" THEN NA
    ELSE IF 0 <= a.n /\ a.n <= 18 * Scale THEN Str(labels[1])
    ELSE IF 18 * Scale < a.n /\ a.n <= 40 * Scale THEN Str(labels[2])
    ELSE IF 40 * Scale < a.n /\ a.n <= 60 * Scale THEN Str(labels[3])
    ELSE IF 60 * Scale < a.n /\ a.n <= 200 * Scale THEN Str(labels[4])
    ELSE NA

\* C6: Age Group is the right-closed bucket of Age with the lowest edge
\* included: [0,18] Child, (18,40] Adult, (40,60] Middle, (60,200] Senior,
\* and no group for an age below 0, above 200, null or unparseable.
C6_AgeGroupBuckets ==
    (AgeGrouped /\ Has("Age")) =>
        \A i \in Rows :
            df[i]["Age Group"] = BucketOfAge(to_numeric(patients_csv[i]["Age"]))

AgeIs(i, years) == df[i]["Age"] = Num(years * Scale)
C6_Witness ==
    /\ AgeGrouped /\ Has("Age") /\ run = 1
    /\ \E i \in Rows : AgeIs(i, 18) /\ df[i]["Age Group"] = Str(labels[1])

\* ================================================================ C7
DatedRows == {i \in Rows : df[i]["Date of Admission"].k = "date"}
MonthKey(i) == df[i]["Admission Month"].s
RECURSIVE SumAdmissions(_)
SumAdmissions(t) ==
    IF t = <<>> THEN 0 ELSE t[Len(t)].Admissions + SumAdmissions(Front(t))

\* C7: admissions-by-month has one row per month that occurs among the
\* rows with a date, counting those rows, months strictly ascending (which
\* is chronological), no row for a null date; the counts sum to the number
\* of rows with a date.
C7_AdmissionsByMonth ==
    MonthlyDone =>
        /\ \A i \in DatedRows :
              /\ MonthKey(i) = Pad(NatToDigits(df[i]["Date of Admission"].y), 4)
                               \o <<"-">>
                               \o Pad(NatToDigits(df[i]["Date of Admission"].m), 2)
              /\ Cardinality({k \in DOMAIN monthly : monthly[k].month = MonthKey(i)}) = 1
        /\ \A k \in DOMAIN monthly :
              /\ \E i \in DatedRows : MonthKey(i) = monthly[k].month
              /\ monthly[k].Admissions =
                    Cardinality({i \in DatedRows : MonthKey(i) = monthly[k].month})
        /\ \A k, l \in DOMAIN monthly :
              k < l =>
                /\ StrLess(monthly[k].month, monthly[l].month)
                /\ \A i, j \in DatedRows :
                      (MonthKey(i) = monthly[k].month /\ MonthKey(j) = monthly[l].month)
                      => LET a == df[i]["Date of Admission"]
                             b == df[j]["Date of Admission"]
                         IN a.y < b.y \/ (a.y = b.y /\ a.m < b.m)
        /\ SumAdmissions(monthly) = Cardinality(DatedRows)

C7_Witness ==
    /\ MonthlyDone
    /\ Len(monthly) = 2
    /\ monthly[1] = [month |-> <<"2", "0", "2", "3", "-", "0", "1">>, Admissions |-> 2]
    /\ monthly[2] = [month |-> <<"2", "0", "2", "3", "-", "0", "2">>, Admissions |-> 1]

\* ================================================================ C8
NoBloodType == cols \cap Columns = Columns \ {"Blood Type"}
OtherFiles == ({CleanFile} \cup MetricFiles \cup ChartFiles) \ BloodFiles

\* C8 as claimed: without a Blood Type column and with every other one,
\* the run hits no missing column, writes none of the blood-type outputs
\* and, when it completes, has written every other output.
C8_AllOtherOutputsWritten ==
    NoBloodType =>
        /\ failure # "KeyError"
        /\ files \cap BloodFiles = {}
        /\ pc = "done" => files = OtherFiles

\* C8, amended: the same, except that admissions_over_time.png is written
\* only when some cleaned row has a parseable date.
C8_OtherOutputsWritten ==
    NoBloodType =>
        /\ failure # "KeyError"
        /\ files \cap BloodFiles = {}
        /\ pc = "done" =>
              files = IF DatedRows # {} THEN OtherFiles
                      ELSE OtherFiles \ {"admissions_over_time.png"}

C8_Witness == NoBloodType /\ pc = "done" /\ files = OtherFiles

\* ================================================================ C9
\* C9: a rendering call leaves no figure open, whether it returns or
\* raises; so no figure is open between rendering calls.
C9_FiguresReleased == open_figs = 0

\* =============================================================== C10
\* The Billing Amount a loaded row parses to (lines 32-38).
ParsedBilling(i) == BillingOf(patients_csv[i]["Billing Amount"])

\* m is the median of the numbers v[i], i in I (I not empty): the midpoint
\* of the least number with half the numbers at or below it and the
\* greatest number with half the numbers at or above it.
IsMedianOf(m, v, I) ==
    LET AtMost(x) == Cardinality({i \in I : v[i] <= x})
        AtLeast(x) == Cardinality({i \in I : v[i] >= x})
        Lows == {x \in Range(v) : 2 * AtMost(x) >= Cardinality(I)}
        Highs == {x \in Range(v) : 2 * AtLeast(x) >= Cardinality(I)}
    IN \E lo \in Lows, hi \in Highs :
          /\ \A x \in Lows : lo <= x
          /\ \A x \in Highs : hi >= x
          /\ 2 * m = lo + hi

\* C10: a row whose Billing Amount parsed to a number keeps it; every row
\* whose Billing Amount is null after parsing gets one and the same value,
\* the median of the non-null amounts of the rows left after duplicate
\* removal.
C10_ImputedWithMedianAfterDedup ==
    (Filled /\ Has("Billing Amount")) =>
        LET parsed == [i \in Rows |-> ParsedBilling(i)]
            Kept == {i \in Rows : ~isna(parsed[i])}
            amount == [i \in Kept |-> parsed[i].n]
        IN \A i \in Rows :
              IF i \in Kept
              THEN df[i]["Billing Amount"] = parsed[i]
              ELSE Kept # {} =>
                      /\ df[i]["Billing Amount"].k = "num"
                      /\ IsMedianOf(df[i]["Billing Amount"].n, amount, Kept)

\* A null row was imputed after drop_duplicates removed a row whose amount
\* would have moved the median.
C10_Witness ==
    /\ Filled /\ Has("Billing Amount") /\ run = 1
    /\ Cardinality(Rows) < Len(patients_csv)
    /\ \E i \in Rows :
          /\ isna(ParsedBilling(i))
          /\ df[i]["Billing Amount"].k = "num"
          /\ df[i]["Billing Amount"]
                # median([j \in DOMAIN patients_csv |->
                            [c \in {"Billing Amount"} |-> ParsedBilling(j)]],
                         "Billing Amount")
====
